---- MODULE Spec2Model ----
(***************************************************************************)
(* Model of data_collector.py: AirQualityCollector.                        *)
(*                                                                         *)
(* The collector is a sequential program.  Its environment is the upstream *)
(* HTTP API (two GET endpoints) and the storage sink                       *)
(* insert_air_quality_data.  What the environment answers during the       *)
(* processing of one location is a "world" w: the outcome of each GET, the *)
(* two decoded bodies and the sink's answer.  Exceptions are modelled      *)
(* explicitly: every helper returns the exception that leaves it (exc),    *)
(* "none" when it returns normally, so that a handler that does not catch  *)
(* shows as a run that ends in pc = "raised".                              *)
(*                                                                         *)
(* A behaviour is one call of one entry point on a freshly constructed     *)
(* collector: the object holds no mutable state (the registry is never     *)
(* written), so a call cannot depend on the calls before it.               *)
(***************************************************************************)
EXTENDS Integers, Sequences, FiniteSets, TLC

VARIABLES
    pc,          \* "idle" (constructed, nothing called yet) | "loop" (top of the for
                 \* loop) | "sleep" (line 181) | "returned" | "raised" (an exception
                 \* left the entry point)
    mode,        \* entry point of the current/last call: "none" | "all" | "one"
    target,      \* location_id argument of the last collect_single_location call
    idx,         \* number of registry entries the for loop (line 164) has taken
    successful,  \* local counter of collect_all_locations (line 161)
    failed,      \* local counter of collect_all_locations (line 162)
    visited,     \* indices of the locations whose processing has begun, this call
    cur,         \* <<r>> while a location is being processed (<<>> otherwise):
                 \* what the environment answered and what the program did
    nAir,        \* GET /air_pollution requests issued during this call (the
                 \* requests of each location, in order, are in cur)
    nInsert,     \* insert_air_quality_data invocations during this call
    nInsertOk,   \* ... of which returned a true value
    sleeps,      \* time.sleep(2) pauses performed during this call
    ret          \* <<>> or the value returned by the last call

vars == <<pc, mode, target, idx, successful, failed, visited, cur,
          nAir, nInsert, nInsertOk, sleeps, ret>>

(* Bound: how far the decoded bodies of one world deviate from a complete  *)
(* payload (missing keys plus malformed sections).                         *)
MaxDeviation == 1

None == "None"

-----------------------------------------------------------------------------
(* Location registry, __init__ lines 14-63 (coordinates play no role in    *)
(* any decision of the program and are left out).                          *)
locations ==
    << [id |-> "aguachica_general", name |-> "Aguachica - Vista General"],
       [id |-> "parque_central",    name |-> "Parque Central"],
       [id |-> "universidad",       name |-> "Universidad Popular del Cesar"],
       [id |-> "parque_morrocoy",   name |-> "Parque Morrocoy"],
       [id |-> "patinodromo",       name |-> "Patinodromo"],
       [id |-> "ciudadela_paz",     name |-> "Ciudadela de la Paz"],
       [id |-> "bosque",            name |-> "Bosque"],
       [id |-> "estadio",           name |-> "Estadio"] >>

LocationIds == {locations[i].id : i \in 1..Len(locations)}

(* Arguments tried for collect_single_location: every registry id and one  *)
(* id that is not in the registry.                                         *)
RequestedIds == LocationIds \cup {"desconocido"}

-----------------------------------------------------------------------------
(* The environment.                                                        *)

ComponentKeys == {"pm2_5", "pm10", "o3", "no2"}
AirKeys       == ComponentKeys \cup {"aqi"}
WeatherKeys   == {"temp", "humidity", "pressure", "speed"}

(* The value the upstream payload carries under each key. *)
Reading ==
    [pm2_5 |-> "v_pm2_5", pm10 |-> "v_pm10", o3 |-> "v_o3", no2 |-> "v_no2",
     aqi |-> "v_aqi", temp |-> "v_temp", humidity |-> "v_humidity",
     pressure |-> "v_pressure", speed |-> "v_speed"]

(* Shape of a 200 body.  "ok": {list: [{components: {..}, main: {..}}]}    *)
(* resp. {main: {..}, wind: {..}}; the other shapes lack or replace one    *)
(* section; "not_json" does not decode at all.                             *)
AirShapes     == {"ok", "not_json", "not_object", "no_list", "empty_list",
                  "no_components", "no_main"}
WeatherShapes == {"ok", "not_json", "not_object", "no_main", "no_wind", "wind_null"}

FullAir     == [shape |-> "ok", keys |-> AirKeys]
FullWeather == [shape |-> "ok", keys |-> WeatherKeys]

Deviation(body, allKeys) ==
    Cardinality(allKeys \ body.keys) + (IF body.shape = "ok" THEN 0 ELSE 1)

Bodies(shapes, allKeys) ==
    {b \in {[shape |-> s, keys |-> allKeys \ m] :
               s \in shapes,
               m \in {x \in SUBSET allKeys : Cardinality(x) <= MaxDeviation}} :
        Deviation(b, allKeys) <= MaxDeviation}

Payloads ==
    {p \in Bodies(AirShapes, AirKeys) \X Bodies(WeatherShapes, WeatherKeys) :
        Deviation(p[1], AirKeys) + Deviation(p[2], WeatherKeys) <= MaxDeviation}

(* Outcome of one requests.get: a response with a status code, or an       *)
(* exception of requests.exceptions (Timeout; ConnectionError stands for   *)
(* every other transport failure: DNS, reset, TLS).                        *)
Response(status) == [raises |-> "none", status |-> status]
Raise(e)         == [raises |-> e, status |-> 0]

Statuses    == {Response(200), Response(503)}
Raises      == {Raise("Timeout"), Raise("ConnectionError")}
HttpOutcome == Statuses \cup Raises
SinkAnswers == {"true", "false", "raise"}

World(a, w, p, s) ==
    [air |-> a, weather |-> w, air_body |-> p[1], weather_body |-> p[2], sink |-> s]

-----------------------------------------------------------------------------
(* get_air_quality_data, lines 65-107.                                     *)

NoBody == [shape |-> "absent", keys |-> {}]

(* The dict returned on success (lines 93-97) and on failure (lines 100,   *)
(* 104, 107): the failure dict has no 'air_quality' and no 'weather' key.  *)
FetchSuccess(air_data, weather_data) ==
    [success |-> TRUE, error |-> None, air_quality |-> air_data, weather |-> weather_data]
FetchFailure(msg) ==
    [success |-> FALSE, error |-> msg, air_quality |-> NoBody, weather |-> NoBody]

(* The exceptions derived from requests.exceptions.RequestException; the   *)
(* JSONDecodeError raised by Response.json() is one of them.               *)
RequestExceptions == {"Timeout", "ConnectionError", "JSONDecodeError"}

(* Variant: line 89 written with "or". *)
TryFetch_EitherStatus(w) ==
    IF w.air.raises # "none"
    THEN [exc |-> w.air.raises, reqs |-> <<"air_pollution">>,
          value |-> FetchFailure(None)]
    ELSE IF w.weather.raises # "none"
    THEN [exc |-> w.weather.raises, reqs |-> <<"air_pollution", "weather">>,
          value |-> FetchFailure(None)]
    ELSE IF w.air.status = 200 \/ w.weather.status = 200
    THEN [exc |-> "none", reqs |-> <<"air_pollution", "weather">>,
          value |-> FetchSuccess(w.air_body, w.weather_body)]
    ELSE [exc |-> "none", reqs |-> <<"air_pollution", "weather">>,
          value |-> FetchFailure("API request failed")]

(* Variant: the weather request is issued only once the pollution request  *)
(* has returned 200.                                                       *)
TryFetch_WeatherAfterCheck(w) ==
    IF w.air.raises # "none"
    THEN [exc |-> w.air.raises, reqs |-> <<"air_pollution">>,
          value |-> FetchFailure(None)]
    ELSE IF w.air.status # 200
    THEN [exc |-> "none", reqs |-> <<"air_pollution">>,
          value |-> FetchFailure("API request failed")]
    ELSE IF w.weather.raises # "none"
    THEN [exc |-> w.weather.raises, reqs |-> <<"air_pollution", "weather">>,
          value |-> FetchFailure(None)]
    ELSE IF w.weather.status = 200
    THEN IF w.air_body.shape = "not_json" \/ w.weather_body.shape = "not_json"
         THEN [exc |-> "JSONDecodeError", reqs |-> <<"air_pollution", "weather">>,
               value |-> FetchFailure(None)]
         ELSE [exc |-> "none", reqs |-> <<"air_pollution", "weather">>,
               value |-> FetchSuccess(w.air_body, w.weather_body)]
    ELSE [exc |-> "none", reqs |-> <<"air_pollution", "weather">>,
          value |-> FetchFailure("API request failed")]

(* The try block, lines 67-100: the requests issued, in order, and either  *)
(* the value returned or the exception raised inside the block.            *)
TryFetch(w) ==
    IF w.air.raises # "none"
    THEN [exc |-> w.air.raises, reqs |-> <<"air_pollution">>,
          value |-> FetchFailure(None)]
    ELSE IF w.weather.raises # "none"
    THEN [exc |-> w.weather.raises, reqs |-> <<"air_pollution", "weather">>,
          value |-> FetchFailure(None)]
    ELSE IF w.air.status = 200 /\ w.weather.status = 200
    THEN IF w.air_body.shape = "not_json" \/ w.weather_body.shape = "not_json"
         THEN [exc |-> "JSONDecodeError", reqs |-> <<"air_pollution", "weather">>,
               value |-> FetchFailure(None)]
         ELSE [exc |-> "none", reqs |-> <<"air_pollution", "weather">>,
               value |-> FetchSuccess(w.air_body, w.weather_body)]
    ELSE [exc |-> "none", reqs |-> <<"air_pollution", "weather">>,
          value |-> FetchFailure("API request failed")]

(* Variant: only the Timeout handler (lines 102-104) is there. *)
get_air_quality_data_OnlyTimeoutCaught(w) ==
    LET t == TryFetch(w) IN
    IF t.exc = "Timeout"
    THEN [exc |-> "none", reqs |-> t.reqs, value |-> FetchFailure("Timeout")]
    ELSE t

(* Variant: a timed-out attempt is made a second time. *)
get_air_quality_data_RetryOnTimeout(w) ==
    LET t == TryFetch(w) IN
    IF t.exc = "Timeout"
    THEN [exc |-> "none", reqs |-> t.reqs \o t.reqs, value |-> FetchFailure("Timeout")]
    ELSE IF t.exc \in RequestExceptions
    THEN [exc |-> "none", reqs |-> t.reqs, value |-> FetchFailure(t.exc)]
    ELSE t

(* The whole method: the try block and its two handlers, lines 102-107.    *)
get_air_quality_data(w) ==
    LET t == TryFetch(w) IN
    IF t.exc = "Timeout"
    THEN [exc |-> "none", reqs |-> t.reqs, value |-> FetchFailure("Timeout")]
    ELSE IF t.exc \in RequestExceptions
    THEN [exc |-> "none", reqs |-> t.reqs, value |-> FetchFailure(t.exc)]
    ELSE t

-----------------------------------------------------------------------------
(* process_and_save_data, lines 109-155.                                   *)

(* dict.get(key): the value, or None when the key is absent. *)
DictGet(body, key) == IF key \in body.keys THEN Reading[key] ELSE None

NoValues ==
    [pm2_5 |-> None, pm10 |-> None, o3 |-> None, no2 |-> None, aqi |-> None,
     temp |-> None, humidity |-> None, pressure |-> None, wind_speed |-> None]

(* Lines 112-123: the subscripts, in the order the code evaluates them.    *)
(* A subscript on a missing key, an empty list or a non-dict raises.       *)
Extract(api_data) ==
    LET aq == api_data.air_quality
        we == api_data.weather
    IN
    IF aq.shape = "not_object" THEN [exc |-> "TypeError", values |-> NoValues]
    ELSE IF aq.shape \in {"absent", "no_list"} THEN [exc |-> "KeyError", values |-> NoValues]
    ELSE IF aq.shape = "empty_list" THEN [exc |-> "IndexError", values |-> NoValues]
    ELSE IF aq.shape = "no_components" THEN [exc |-> "KeyError", values |-> NoValues]
    ELSE IF aq.shape = "no_main" \/ "aqi" \notin aq.keys
    THEN [exc |-> "KeyError", values |-> NoValues]
    ELSE IF we.shape = "not_object" THEN [exc |-> "TypeError", values |-> NoValues]
    ELSE IF we.shape \in {"absent", "no_main"} \/ "temp" \notin we.keys
            \/ "humidity" \notin we.keys \/ "pressure" \notin we.keys
    THEN [exc |-> "KeyError", values |-> NoValues]
    ELSE IF we.shape = "wind_null" THEN [exc |-> "AttributeError", values |-> NoValues]
    ELSE [exc |-> "none",
          values |->
            [pm2_5 |-> DictGet(aq, "pm2_5"), pm10 |-> DictGet(aq, "pm10"),
             o3 |-> DictGet(aq, "o3"), no2 |-> DictGet(aq, "no2"),
             aqi |-> Reading["aqi"], temp |-> Reading["temp"],
             humidity |-> Reading["humidity"], pressure |-> Reading["pressure"],
             wind_speed |-> IF we.shape = "no_wind" THEN None
                            ELSE DictGet(we, "speed")]]

(* Variant: the pm2_5 and pm10 keyword arguments take each other's value. *)
InsertArgs_SwappedComponents(location, values) ==
    [location_id |-> location.id, location_name |-> location.name,
     values |-> [values EXCEPT !.pm2_5 = values.pm10, !.pm10 = values.pm2_5]]

(* The keyword arguments of the insert call, lines 129-144 (timestamp and  *)
(* coordinates left out).                                                  *)
InsertArgs(location, values) ==
    [location_id |-> location.id, location_name |-> location.name, values |-> values]

(* The try block, lines 111-151: the insert calls made and the value       *)
(* returned, or the exception raised inside the block.                     *)
TryProcess(location, api_data, sink) ==
    LET e == Extract(api_data) IN
    IF e.exc # "none"
    THEN [exc |-> e.exc, inserted |-> <<>>, value |-> FALSE]
    ELSE IF sink = "raise"
    THEN [exc |-> "SinkError", inserted |-> <<InsertArgs(location, e.values)>>,
          value |-> FALSE]
    ELSE [exc |-> "none", inserted |-> <<InsertArgs(location, e.values)>>,
          value |-> (sink = "true")]

(* Variant: the value insert returns is not looked at (lines 146-151). *)
process_and_save_data_IgnoresSink(location, api_data, sink) ==
    LET t == TryProcess(location, api_data, sink) IN
    IF t.exc # "none"
    THEN [exc |-> "none", inserted |-> t.inserted, value |-> FALSE]
    ELSE [exc |-> "none", inserted |-> t.inserted, value |-> TRUE]

(* The whole method: "except Exception" (line 153) catches whatever the    *)
(* block raises and returns False.                                         *)
process_and_save_data(location, api_data, sink) ==
    LET t == TryProcess(location, api_data, sink) IN
    IF t.exc # "none"
    THEN [exc |-> "none", inserted |-> t.inserted, value |-> FALSE]
    ELSE t

-----------------------------------------------------------------------------
(* The worlds the model draws from.                                        *)

FullPayload == <<FullAir, FullWeather>>

(* The sink is consulted only when both bodies decode and every subscript  *)
(* of lines 112-123 goes through.                                          *)
SinkConsulted(p) ==
    /\ p[1].shape # "not_json" /\ p[2].shape # "not_json"
    /\ Extract(FetchSuccess(p[1], p[2])).exc = "none"

(* Every world, the parts the program never gets to ask for left at their  *)
(* default (status 200, complete bodies, sink answering true).             *)
Worlds ==
    {World(a, Response(200), FullPayload, "true") : a \in Raises}
    \cup {World(a, w, FullPayload, "true") : a \in Statuses, w \in Raises}
    \cup {World(sp[1], sp[2], FullPayload, "true") :
            sp \in {x \in Statuses \X Statuses :
                      ~(x[1].status = 200 /\ x[2].status = 200)}}
    \cup {World(Response(200), Response(200), ps[1], ps[2]) :
            ps \in {x \in Payloads \X SinkAnswers :
                      x[2] = "true" \/ SinkConsulted(x[1])}}

-----------------------------------------------------------------------------
(* collect_all_locations, lines 157-188.                                   *)

(* Variant: the else branch of lines 174-175 is missing. *)
LoopBody_DropsFailure(location, w) ==
    LET f == get_air_quality_data(w) IN
    IF f.exc # "none"
    THEN [exc |-> f.exc, reqs |-> f.reqs, api_data |-> f.value, inserted |-> <<>>,
          value |-> FALSE, succ |-> 0, fail |-> 0]
    ELSE IF f.value.success
    THEN LET p == process_and_save_data(location, f.value, w.sink) IN
         [exc |-> p.exc, reqs |-> f.reqs, api_data |-> f.value,
          inserted |-> p.inserted, value |-> p.value,
          succ |-> IF p.value THEN 1 ELSE 0, fail |-> 0]
    ELSE [exc |-> "none", reqs |-> f.reqs, api_data |-> f.value, inserted |-> <<>>,
          value |-> FALSE, succ |-> 0, fail |-> 1]

(* One pass through the loop body up to the pause, lines 165-178: what was *)
(* requested and inserted, and which counter is incremented.               *)
LoopBody(location, w) ==
    LET f == get_air_quality_data(w) IN
    IF f.exc # "none"
    THEN [exc |-> f.exc, reqs |-> f.reqs, api_data |-> f.value, inserted |-> <<>>,
          value |-> FALSE, succ |-> 0, fail |-> 0]
    ELSE IF f.value.success
    THEN LET p == process_and_save_data(location, f.value, w.sink) IN
         IF p.exc # "none"
         THEN [exc |-> p.exc, reqs |-> f.reqs, api_data |-> f.value,
               inserted |-> p.inserted, value |-> FALSE, succ |-> 0, fail |-> 0]
         ELSE [exc |-> "none", reqs |-> f.reqs, api_data |-> f.value,
               inserted |-> p.inserted, value |-> p.value,
               succ |-> IF p.value THEN 1 ELSE 0,
               fail |-> IF p.value THEN 0 ELSE 1]
    ELSE [exc |-> "none", reqs |-> f.reqs, api_data |-> f.value, inserted |-> <<>>,
          value |-> FALSE, succ |-> 0, fail |-> 1]

Count(seq, x) == Cardinality({i \in 1..Len(seq) : seq[i] = x})

(* What one pipeline execution adds to the observation variables. *)
Observe(b, loc, w) ==
    /\ cur' = <<[loc |-> loc, world |-> w, reqs |-> b.reqs, api_data |-> b.api_data,
                 inserted |-> b.inserted, value |-> b.value,
                 succ |-> b.succ, fail |-> b.fail]>>
    /\ nAir' = nAir + Count(b.reqs, "air_pollution")
    /\ nInsert' = nInsert + Len(b.inserted)
    /\ nInsertOk' = nInsertOk + (IF Len(b.inserted) > 0 /\ w.sink = "true" THEN 1 ELSE 0)

(* The call: lines 159-162. *)
CollectAllStart ==
    /\ pc = "idle"
    /\ pc' = "loop"
    /\ mode' = "all"
    /\ target' = None
    /\ idx' = 0
    /\ successful' = 0
    /\ failed' = 0
    /\ visited' = <<>>
    /\ cur' = <<>>
    /\ nAir' = 0 /\ nInsert' = 0 /\ nInsertOk' = 0
    /\ sleeps' = 0
    /\ ret' = <<>>

(* Variant: the pause stands inside the success branch (after line 173). *)
Iterate_PauseOnlyOnSuccess ==
    /\ pc = "loop"
    /\ idx < Len(locations)
    /\ \E w \in Worlds :
        LET b == LoopBody(locations[idx + 1], w) IN
        /\ idx' = idx + 1
        /\ visited' = Append(visited, idx + 1)
        /\ Observe(b, idx + 1, w)
        /\ successful' = successful + b.succ
        /\ failed' = failed + b.fail
        /\ pc' = IF b.exc # "none" THEN "raised"
                 ELSE IF b.succ = 1 THEN "sleep" ELSE "loop"
    /\ UNCHANGED <<mode, target, sleeps, ret>>

(* The loop takes the next location and runs lines 165-178 on it. *)
Iterate ==
    /\ pc = "loop"
    /\ idx < Len(locations)
    /\ \E w \in Worlds :
        LET b == LoopBody(locations[idx + 1], w) IN
        /\ idx' = idx + 1
        /\ visited' = Append(visited, idx + 1)
        /\ Observe(b, idx + 1, w)
        /\ successful' = successful + b.succ
        /\ failed' = failed + b.fail
        /\ pc' = IF b.exc # "none" THEN "raised" ELSE "sleep"
    /\ UNCHANGED <<mode, target, sleeps, ret>>

(* time.sleep(2), line 181: the processing of the location is over. *)
Sleep ==
    /\ pc = "sleep"
    /\ sleeps' = sleeps + 1
    /\ cur' = <<>>
    /\ pc' = "loop"
    /\ UNCHANGED <<mode, target, idx, successful, failed, visited,
                   nAir, nInsert, nInsertOk, ret>>

(* The loop is exhausted: lines 183-188. *)
CollectAllReturn ==
    /\ pc = "loop"
    /\ idx = Len(locations)
    /\ ret' = <<"tally", successful, failed>>
    /\ pc' = "returned"
    /\ UNCHANGED <<mode, target, idx, successful, failed, visited, cur,
                   nAir, nInsert, nInsertOk, sleeps>>

-----------------------------------------------------------------------------
(* collect_single_location, lines 190-206.                                 *)

(* Variant: an id that is not found falls back to the first entry. *)
Lookup_DefaultFirst(location_id) ==
    IF \E i \in 1..Len(locations) : locations[i].id = location_id
    THEN CHOOSE i \in 1..Len(locations) : locations[i].id = location_id
    ELSE 1

(* Line 192: the first registry entry with this id; 0 stands for None. *)
Lookup(location_id) ==
    IF \E i \in 1..Len(locations) : locations[i].id = location_id
    THEN CHOOSE i \in 1..Len(locations) :
            /\ locations[i].id = location_id
            /\ \A j \in 1..(i - 1) : locations[j].id # location_id
    ELSE 0

(* Variant: line 203 calls process_and_save_data and returns True. *)
SingleBody_IgnoresResult(location, w) ==
    LET f == get_air_quality_data(w) IN
    IF f.exc # "none"
    THEN [exc |-> f.exc, reqs |-> f.reqs, api_data |-> f.value, inserted |-> <<>>,
          value |-> FALSE, succ |-> 0, fail |-> 0]
    ELSE IF f.value.success
    THEN LET p == process_and_save_data(location, f.value, w.sink) IN
         [exc |-> p.exc, reqs |-> f.reqs, api_data |-> f.value,
          inserted |-> p.inserted, value |-> TRUE, succ |-> 0, fail |-> 0]
    ELSE [exc |-> "none", reqs |-> f.reqs, api_data |-> f.value, inserted |-> <<>>,
          value |-> FALSE, succ |-> 0, fail |-> 0]

(* Lines 198-206, for a location that was found. *)
SingleBody(location, w) ==
    LET f == get_air_quality_data(w) IN
    IF f.exc # "none"
    THEN [exc |-> f.exc, reqs |-> f.reqs, api_data |-> f.value, inserted |-> <<>>,
          value |-> FALSE, succ |-> 0, fail |-> 0]
    ELSE IF f.value.success
    THEN LET p == process_and_save_data(location, f.value, w.sink) IN
         [exc |-> p.exc, reqs |-> f.reqs, api_data |-> f.value,
          inserted |-> p.inserted, value |-> p.value, succ |-> 0, fail |-> 0]
    ELSE [exc |-> "none", reqs |-> f.reqs, api_data |-> f.value, inserted |-> <<>>,
          value |-> FALSE, succ |-> 0, fail |-> 0]

collect_single_location(location_id) ==
    /\ pc = "idle"
    /\ mode' = "one"
    /\ target' = location_id
    /\ idx' = 0 /\ successful' = 0 /\ failed' = 0
    /\ sleeps' = 0
    /\ LET i == Lookup(location_id) IN
       IF i = 0
       THEN /\ ret' = <<"bool", FALSE>>
            /\ pc' = "returned"
            /\ visited' = <<>>
            /\ cur' = <<>>
            /\ nAir' = 0 /\ nInsert' = 0 /\ nInsertOk' = 0
       ELSE \E w \in Worlds :
            LET b == SingleBody(locations[i], w) IN
            /\ visited' = <<i>>
            /\ cur' = <<[loc |-> i, world |-> w, reqs |-> b.reqs,
                         api_data |-> b.api_data, inserted |-> b.inserted,
                         value |-> b.value, succ |-> b.succ, fail |-> b.fail]>>
            /\ nAir' = Count(b.reqs, "air_pollution")
            /\ nInsert' = Len(b.inserted)
            /\ nInsertOk' = (IF Len(b.inserted) > 0 /\ w.sink = "true" THEN 1 ELSE 0)
            /\ ret' = IF b.exc # "none" THEN <<>> ELSE <<"bool", b.value>>
            /\ pc' = IF b.exc # "none" THEN "raised" ELSE "returned"

CollectSingle == \E location_id \in RequestedIds : collect_single_location(location_id)

-----------------------------------------------------------------------------
Init ==
    /\ pc = "idle"
    /\ mode = "none"
    /\ target = None
    /\ idx = 0
    /\ successful = 0
    /\ failed = 0
    /\ visited = <<>>
    /\ cur = <<>>
    /\ nAir = 0 /\ nInsert = 0 /\ nInsertOk = 0
    /\ sleeps = 0
    /\ ret = <<>>

Next ==
    \/ CollectAllStart
    \/ Iterate
    \/ Sleep
    \/ CollectAllReturn
    \/ CollectSingle

Spec == Init /\ [][Next]_vars

(* A started run keeps executing: the program is sequential and none of    *)
(* its steps blocks for ever (each GET has timeout=10, the pause is 2 s).  *)
FairSpec == Spec /\ WF_vars(Iterate) /\ WF_vars(Sleep) /\ WF_vars(CollectAllReturn)

-----------------------------------------------------------------------------
(* Vocabulary of the properties, stated on the environment's answers.      *)

Processing == cur # <<>>
NumLocations == Len(locations)

(* Both GETs came back, each with status 200. *)
Both200(w) ==
    /\ w.air.raises = "none" /\ w.air.status = 200
    /\ w.weather.raises = "none" /\ w.weather.status = 200

(* The sections the normalizer reads are there (the wind section may be    *)
(* absent) ...                                                             *)
WellFormed(w) ==
    /\ w.air_body.shape = "ok"
    /\ w.weather_body.shape \in {"ok", "no_wind"}

(* ... and so are the index, temperature, humidity and pressure. *)
RequiredPresent(w) ==
    /\ "aqi" \in w.air_body.keys
    /\ {"temp", "humidity", "pressure"} \subseteq w.weather_body.keys

PipelineSucceeds(w) ==
    Both200(w) /\ WellFormed(w) /\ RequiredPresent(w) /\ w.sink = "true"

Returned(kind) == pc = "returned" /\ ret # <<>> /\ ret[1] = kind

-----------------------------------------------------------------------------
(* C1: in a collect_all_locations run the two counters always sum to the   *)
(* number of locations processed so far, and the returned pair sums to the *)
(* number of locations in the registry, whatever each location's outcome.  *)
C1_TallySumsToProcessed ==
    mode = "all" =>
        /\ successful + failed = Len(visited)
        /\ Returned("tally") =>
              /\ ret[2] + ret[3] = NumLocations
              /\ ret[2] = successful /\ ret[3] = failed

C1_Witness ==
    /\ mode = "all" /\ Returned("tally")
    /\ ret[2] >= 2 /\ ret[3] >= 2

(* C2: each loop iteration increments exactly one counter: successful when *)
(* both calls returned 200, every required field was present and the sink  *)
(* reported success; failed in every other case.                           *)
C2_SuccessIffPipelineSucceeds ==
    [][(mode' = "all" /\ idx' = idx + 1) =>
          /\ cur' # <<>>
          /\ (successful' - successful) + (failed' - failed) = 1
          /\ successful' - successful \in {0, 1}
          /\ (successful' = successful + 1) <=> PipelineSucceeds(cur'[1].world)]_vars

C2_Witness ==
    /\ mode = "all" /\ Processing
    /\ PipelineSucceeds(cur[1].world)
    /\ successful = 2 /\ failed = 1

(* C3: no exception leaves an entry point, the locations are processed     *)
(* once each in registry order, a failure at one location is followed by   *)
(* the processing of the next one, and a started collect_all_locations run *)
(* returns its tally after the whole registry was processed.               *)
C3_RunAlwaysCompletes ==
    /\ [](/\ pc # "raised"
          /\ \A i \in 1..Len(visited) : mode = "all" => visited[i] = i
          /\ (mode = "all" /\ pc = "returned") =>
                /\ Len(visited) = NumLocations
                /\ ret = <<"tally", successful, failed>>)
    /\ [][(mode = "all" /\ pc = "sleep" /\ idx < NumLocations) =>
             (pc' = "loop" /\ idx' = idx)]_vars
    /\ (mode = "all") ~> (pc = "returned")

C3_Witness ==
    /\ mode = "all" /\ Returned("tally")
    /\ failed = NumLocations

(* C4: insert is invoked at most once per location, and only when both     *)
(* calls returned 200 and the required fields were extracted; a non-200    *)
(* status, a timeout or a transport failure gives success=false without    *)
(* payload and no insert; successful counts the inserts that reported      *)
(* success, each for the location being processed.                         *)
C4_InsertOnlyAfterCompleteFetch ==
    /\ Processing =>
        LET c == cur[1] IN
        /\ Len(c.inserted) <= 1
        /\ Len(c.inserted) = 1 =>
              /\ Both200(c.world) /\ WellFormed(c.world) /\ RequiredPresent(c.world)
              /\ c.inserted[1].location_id = locations[c.loc].id
        /\ ~Both200(c.world) =>
              /\ c.api_data.success = FALSE
              /\ c.api_data.air_quality = NoBody /\ c.api_data.weather = NoBody
              /\ c.inserted = <<>>
    /\ nInsert <= Len(visited)
    /\ nInsertOk <= nInsert
    /\ mode = "all" => successful = nInsertOk
    /\ (mode = "all" /\ successful = Len(visited)) => nInsert = Len(visited)
    /\ \A i, j \in 1..Len(visited) : i # j => visited[i] # visited[j]

C4_Witness ==
    /\ mode = "all" /\ Processing /\ idx = 2
    /\ cur[1].world.air.status = 200 /\ cur[1].world.weather.status = 503
    /\ cur[1].world.weather.raises = "none"
    /\ nInsert = 1 /\ successful = 1

(* C5: collect_single_location with an id that is not in the registry      *)
(* returns False, issues no request, makes no insert and raises nothing.   *)
C5_UnknownIdReturnsFalse ==
    (mode = "one" /\ target \notin LocationIds) =>
        /\ pc = "returned"
        /\ ret = <<"bool", FALSE>>
        /\ nAir = 0 /\ nInsert = 0
        /\ cur = <<>>

C5_Witness == mode = "one" /\ target = "desconocido" /\ Returned("bool")

(* C6 as claimed: every processed location gets exactly the two requests,  *)
(* whatever the outcome of the other request.                              *)
C6_ExactlyTwoRequests ==
    Processing => cur[1].reqs = <<"air_pollution", "weather">>

(* C6 as amended: the pollution request is always issued, first; the       *)
(* weather request follows unless the pollution request timed out or       *)
(* failed at transport level, and then it is not issued at all.            *)
C6_TwoRequestsUnlessFirstRaises ==
    Processing =>
        LET c == cur[1] IN
        IF c.world.air.raises # "none"
        THEN c.reqs = <<"air_pollution">>
        ELSE c.reqs = <<"air_pollution", "weather">>

C6_Witness ==
    /\ Processing /\ mode = "all" /\ idx = 3
    /\ cur[1].world.air.raises = "ConnectionError"
    /\ cur[1].reqs = <<"air_pollution">>
    /\ nAir = 3 /\ nInsert = 1

(* C7: in collect_all_locations exactly one pause follows each location,   *)
(* the last one included, succeeded or not; requests for the next location *)
(* are issued only after the pause of the previous one;                    *)
(* collect_single_location never pauses.                                   *)
C7_OnePausePerLocation ==
    /\ [](/\ (mode = "all" /\ pc = "loop") => sleeps = idx
          /\ (mode = "all" /\ pc = "sleep") => sleeps = idx - 1
          /\ (mode = "all" /\ pc = "returned") => sleeps = NumLocations
          /\ mode = "one" => sleeps = 0)
    /\ [][(mode' = "all" /\ nAir' + nInsert' > nAir + nInsert) =>
             (sleeps = idx /\ sleeps' = sleeps /\ idx' = idx + 1)]_vars

C7_Witness ==
    /\ mode = "all" /\ Returned("tally")
    /\ sleeps = NumLocations /\ failed >= 1 /\ successful >= 1

(* C8: within a run no location is asked twice: at most one pollution and  *)
(* one weather request per location, requests and inserts are only ever    *)
(* made for a location that was not processed before, and a failed fetch   *)
(* is followed by no insert.                                               *)
C8_NoRetry ==
    /\ [](/\ Processing =>
               /\ Count(cur[1].reqs, "air_pollution") <= 1
               /\ Count(cur[1].reqs, "weather") <= 1
               /\ Len(cur[1].reqs) <= 2
               /\ ~cur[1].api_data.success => cur[1].inserted = <<>>
          /\ nAir <= Len(visited))
    /\ [][(nAir' + nInsert' > nAir + nInsert /\ mode = "all") =>
             /\ cur' # <<>>
             /\ \A i \in 1..Len(visited) : visited[i] # cur'[1].loc
             /\ nAir' - nAir <= 1]_vars

C8_Witness ==
    /\ mode = "all" /\ Processing /\ idx = 3
    /\ cur[1].world.air.raises = "Timeout"
    /\ nAir = 3 /\ nInsert = 2

(* C9: with both bodies well-formed, a missing pm2_5, pm10, o3, no2 or     *)
(* wind speed leaves one insert whose argument is None for exactly the     *)
(* missing keys; a missing index, temperature, humidity or pressure leaves *)
(* no insert and a failure.                                                *)
C9_Expected(w) ==
    [pm2_5 |-> IF "pm2_5" \in w.air_body.keys THEN "v_pm2_5" ELSE None,
     pm10 |-> IF "pm10" \in w.air_body.keys THEN "v_pm10" ELSE None,
     o3 |-> IF "o3" \in w.air_body.keys THEN "v_o3" ELSE None,
     no2 |-> IF "no2" \in w.air_body.keys THEN "v_no2" ELSE None,
     aqi |-> "v_aqi", temp |-> "v_temp", humidity |-> "v_humidity",
     pressure |-> "v_pressure",
     wind_speed |-> IF "speed" \in w.weather_body.keys /\ w.weather_body.shape = "ok"
                    THEN "v_speed" ELSE None]

C9_OptionalAndRequiredFields ==
    (Processing /\ Both200(cur[1].world) /\ WellFormed(cur[1].world)) =>
        LET c == cur[1] IN
        IF RequiredPresent(c.world)
        THEN /\ Len(c.inserted) = 1
             /\ c.inserted[1].values = C9_Expected(c.world)
        ELSE /\ c.inserted = <<>>
             /\ c.value = FALSE
             /\ c.succ = 0
             /\ mode = "all" => c.fail = 1
             /\ mode = "one" => ret = <<"bool", FALSE>>

C9_Witness ==
    /\ Processing /\ Both200(cur[1].world) /\ WellFormed(cur[1].world)
    /\ "pm2_5" \notin cur[1].world.air_body.keys
    /\ Len(cur[1].inserted) = 1
    /\ cur[1].inserted[1].values.pm2_5 = None
    /\ cur[1].inserted[1].values.pm10 = "v_pm10"

(* C10: collect_single_location with a known id does, for the answers it   *)
(* got, what one iteration of collect_all_locations does for them: the     *)
(* same requests, the same insert, and it returns True exactly when the    *)
(* iteration counts a success; nothing is requested or inserted for any    *)
(* other location.                                                         *)
C10_SingleMatchesIteration ==
    (mode = "one" /\ target \in LocationIds) =>
        /\ Processing
        /\ LET c == cur[1]
               b == LoopBody(locations[c.loc], c.world)
           IN
           /\ locations[c.loc].id = target
           /\ visited = <<c.loc>>
           /\ pc = "returned" <=> b.exc = "none"
           /\ pc = "returned" => ret = <<"bool", b.succ = 1>>
           /\ c.reqs = b.reqs
           /\ c.inserted = b.inserted
           /\ nAir = Count(b.reqs, "air_pollution")
           /\ nInsert = Len(b.inserted)
           /\ \A k \in 1..Len(c.inserted) : c.inserted[k].location_id = target
           /\ sleeps = 0

C10_Witness ==
    /\ mode = "one" /\ target = "universidad" /\ Returned("bool")
    /\ Processing /\ cur[1].world.sink = "false"
    /\ Len(cur[1].inserted) = 1 /\ ret[2] = FALSE

====
